---- MODULE Spec2Model ----
(***************************************************************************)
(* Model of two parts of javascript-obfuscator:                            *)
(*                                                                         *)
(*  - SplitStringTransformer (src/unnamed/part_000): the `leave` visitor,  *)
(*    transformNode with its two passes, transformLiteralNodeByChunkLength,*)
(*    chunkString and transformStringChunksToBinaryExpressionNode.         *)
(*    Specification: Spec.                                                 *)
(*                                                                         *)
(*  - JavaScriptObfuscatorInternal.obfuscate                               *)
(*    (src/src/JavaScriptObfuscatorInternal.ts): the sequence of steps of  *)
(*    one run and the process-wide random generator over several runs.     *)
(*    Specification: RunSpec.                                              *)
(*                                                                         *)
(* A string value is a sequence of code points.  The literal under         *)
(* transformation is taken to consist of pairwise distinct code points,    *)
(* so every string the transformer handles is a slice of that literal and  *)
(* is written [off |-> o, len |-> n]: the n code points that follow the    *)
(* first o code points of the literal.  Two slices hold the same string    *)
(* iff they are the same slice (the empty string is [off |-> 0, len |-> 0])*)
(***************************************************************************)
EXTENDS Integers, Sequences, FiniteSets, TLC

VARIABLES
    \* ---- SplitStringTransformer ----
    pc,                         \* position in leave / transformNode
    splitStrings,               \* options.splitStrings
    splitStringsChunkLength,    \* options.splitStringsChunkLength
    nodeTransformationStage,    \* argument of getVisitor
    hasParent,                  \* parentNode of the visited node is not null
    prohibited,                 \* NodeLiteralUtils.isProhibitedLiteralNode(literalNode, parentNode)
    literalNode,                \* the visited literal
    firstPassChunksNode,        \* transformNode local
    stringChunks,               \* transformNode local (the array pass #1 returned)
    stringChunksCount,          \* transformNode local
    isLargeString,              \* transformNode local
    minSecondPathChunkLength,   \* transformNode local
    secondPassChunksNode,       \* transformNode local
    returnedNode,               \* the node that stands at the literal's place after leave
    parentized,                 \* NodeUtils.parentizeNode / parentizeAst have run
    chunkIndex,                 \* chunkString loop variable
    nextChunkStartIndex,        \* chunkString loop variable
    chunks,                     \* chunkString local
    \* ---- JavaScriptObfuscatorInternal ----
    rpc,                        \* position in obfuscate
    seed,                       \* options.seed of the running call
    sourceCode,                 \* argument of the running call
    randomGenerator,            \* the process-wide generator (Utils)
    steps,                      \* steps the running call has performed, in order
    generatorAtPasses,          \* generator state when the passes of the running call started
    generatedCode,              \* output of the running call
    runs,                       \* the calls that returned, in order
    calls                       \* number of calls started

splitVars == <<pc, splitStrings, splitStringsChunkLength, nodeTransformationStage,
               hasParent, prohibited, literalNode, firstPassChunksNode, stringChunks,
               stringChunksCount, isLargeString, minSecondPathChunkLength,
               secondPassChunksNode, returnedNode, parentized, chunkIndex, nextChunkStartIndex, chunks>>

runVars == <<rpc, seed, sourceCode, randomGenerator, steps, generatorAtPasses,
             generatedCode, runs, calls>>

vars == <<splitVars, runVars>>

----------------------------------------------------------------------------
\* Program constants

maxStringLengthForSecondPass == 30000

firstPassChunkLength == 1000

----------------------------------------------------------------------------
\* Bounds of the model

\* short literals have 0..MaxShortLength code points
MaxShortLength == 6

\* with short literals, splitStringsChunkLength ranges over 1..MaxShortChunkLength
MaxShortChunkLength == 7

\* iterations of a chunkString loop that never exits which the model follows
MaxSpin == 3

\* literal lengths around the first-pass chunk length and the large-string threshold
LongLengths == {999, 1000, 1001, 2000, 2500, 29001, 30000, 30001, 31000, 31001, 32001, 50000}

\* splitStringsChunkLength values used with them
LongChunkLengths == {5, 10, 31, 49, 1000, 1001}

----------------------------------------------------------------------------
\* Strings (stringz) and nodes (NodeFactory)

EmptyString == [off |-> 0, len |-> 0]

Min(a, b) == IF a <= b THEN a ELSE b

\* stringz.length: the number of code points
StringzLength(string) == string.len

\* stringz.substr(string, begin, len) for begin >= 0 and len >= 0:
\* '' when begin is past the end, else the code points begin .. begin+len-1,
\* cut at the end of the string
StringzSubstr(string, begin, len) ==
    IF begin >= StringzLength(string) \/ len = 0
    THEN EmptyString
    ELSE [off |-> string.off + begin,
          len |-> Min(len, StringzLength(string) - begin)]

NoNode == [type |-> "None"]

\* NodeFactory.literalNode; kind is "string" for a string value
LiteralNode(kind, value) == [type |-> "Literal", kind |-> kind, value |-> value]

\* A BinaryExpression node.  Every binary expression the transformer builds is a
\* '+' whose left operand is the expression built so far, so a node is stored
\* with its left spine unfolded: operands <<o1, o2, ..., on>> (n >= 2, o1 not a
\* BinaryExpression) is the tree (((o1 + o2) + o3) ... + on), in which
\* BinaryExpression(left: ((o1 + o2) ... + o(k-1)), right: ok) are the nodes of the
\* spine.  Each tree has exactly one such form.
\* NodeFactory.binaryExpressionNode('+', left, right)
BinaryExpressionNode(left, right) ==
    [type     |-> "BinaryExpression",
     operator |-> "+",
     operands |-> IF left.type = "BinaryExpression"
                  THEN Append(left.operands, right)
                  ELSE <<left, right>>]

\* NodeGuards.isLiteralNode
IsLiteralNode(node) == node.type = "Literal"

\* NodeLiteralUtils.isStringLiteralNode
IsStringLiteralNode(node) == IsLiteralNode(node) /\ node.kind = "string"

----------------------------------------------------------------------------
\* SplitStringTransformer: the pure parts

\* Math.ceil(stringLength / chunkSize) for chunkSize >= 1
ChunksCount(stringLength, chunkSize) == (stringLength + chunkSize - 1) \div chunkSize

\* chunkString with chunkSize = 0 < stringLength: stringLength / 0 is Infinity,
\* chunkIndex < chunksCount stays true and the loop never exits
ChunkStringNeverExits(stringLength, chunkSize) == chunkSize = 0 /\ stringLength > 0

\* mutant: nextChunkStartIndex += chunkSize - 1, so that chunks overlap
chunkStringOverlapping(string, stringLength, chunkSize) ==
    [i \in 1..ChunksCount(stringLength, chunkSize) |->
        StringzSubstr(string, (i - 1) * (chunkSize - 1), chunkSize)]

\* mutant: Math.floor instead of Math.ceil, so that the remainder is dropped
chunkStringFloorCount(string, stringLength, chunkSize) ==
    [i \in 1..(stringLength \div chunkSize) |->
        StringzSubstr(string, (i - 1) * chunkSize, chunkSize)]

\* chunkString for chunkSize >= 1: chunks[chunkIndex] is the substr that starts
\* at nextChunkStartIndex = chunkIndex * chunkSize (chunkIndex counted from 0)
chunkString(string, stringLength, chunkSize) ==
    [i \in 1..ChunksCount(stringLength, chunkSize) |->
        StringzSubstr(string, (i - 1) * chunkSize, chunkSize)]

\* Array.prototype.shift applied to the array: what is left in it
Shifted(array) == IF array = <<>> THEN <<>> ELSE Tail(array)

\* !chunk for the value shift() returned: undefined (no element) or ''
IsFalsyChunk(array) == array = <<>> \/ StringzLength(Head(array)) = 0

\* chunks.reduce(...) of transformStringChunksToBinaryExpressionNode: each step is
\* binaryExpressionNode('+', binaryExpressionNode, literalNode(chunk)), which puts
\* the chunk's literal at the end of the spine
ReduceChunks(initialBinaryExpressionNode, array) ==
    [initialBinaryExpressionNode EXCEPT
        !.operands = @ \o [i \in 1..Len(array) |-> LiteralNode("string", array[i])]]

\* transformStringChunksToBinaryExpressionNode.  The two shift() calls remove the
\* first two elements from the caller's array: `chunks` of the result is that
\* array as the call leaves it.
transformStringChunksToBinaryExpressionNode(array) ==
    LET afterFirstShift  == Shifted(array)
        afterSecondShift == Shifted(afterFirstShift)
    IN  IF IsFalsyChunk(array) \/ IsFalsyChunk(afterFirstShift)
        THEN [threw |-> TRUE, node |-> NoNode, chunks |-> afterSecondShift]
        ELSE [threw  |-> FALSE,
              node   |-> ReduceChunks(
                            BinaryExpressionNode(
                                LiteralNode("string", Head(array)),
                                LiteralNode("string", Head(afterFirstShift))),
                            afterSecondShift),
              chunks |-> afterSecondShift]

\* mutant: the guard is chunkLength > valueLength
transformLiteralNodeByChunkLengthStrict(node, chunkLength) ==
    IF ~IsStringLiteralNode(node)
    THEN [threw |-> FALSE, node |-> node, chunks |-> <<>>]
    ELSE LET valueLength == StringzLength(node.value)
         IN  IF chunkLength > valueLength
             THEN [threw |-> FALSE, node |-> node, chunks |-> <<>>]
             ELSE transformStringChunksToBinaryExpressionNode(
                      chunkString(node.value, valueLength, chunkLength))

\* mutant: the guard measures the value in UTF-16 units of which every code
\* point takes two (chunkLength >= valueLength / 2)
transformLiteralNodeByChunkLengthLenient(node, chunkLength) ==
    IF ~IsStringLiteralNode(node)
    THEN [threw |-> FALSE, node |-> node, chunks |-> <<>>]
    ELSE LET valueLength == StringzLength(node.value)
         IN  IF chunkLength * 2 >= valueLength
             THEN [threw |-> FALSE, node |-> node, chunks |-> <<>>]
             ELSE transformStringChunksToBinaryExpressionNode(
                      chunkString(node.value, valueLength, chunkLength))

\* transformLiteralNodeByChunkLength for a chunk length whose chunkString loop
\* exits: [resultNode, stringChunks], or the builder's exception.  stringChunks
\* is the array that was handed to the builder, as the builder left it.
transformLiteralNodeByChunkLength(node, chunkLength) ==
    IF ~IsStringLiteralNode(node)
    THEN [threw |-> FALSE, node |-> node, chunks |-> <<>>]
    ELSE LET valueLength == StringzLength(node.value)
         IN  IF chunkLength >= valueLength
             THEN [threw |-> FALSE, node |-> node, chunks |-> <<>>]
             ELSE transformStringChunksToBinaryExpressionNode(
                      chunkString(node.value, valueLength, chunkLength))

\* the literal leaves of a tree, left to right (LeavesOf: those of operands lo..hi)
RECURSIVE Leaves(_), LeavesOf(_, _, _)
Leaves(node) ==
    IF node.type = "BinaryExpression"
    THEN LeavesOf(node.operands, 1, Len(node.operands))
    ELSE <<node>>

LeavesOf(operands, lo, hi) ==
    IF lo = hi
    THEN Leaves(operands[lo])
    ELSE LET mid == (lo + hi) \div 2
         IN  LeavesOf(operands, lo, mid) \o LeavesOf(operands, mid + 1, hi)

\* estraverse.replace(root, {enter}) with the enter callback of pass #2: enter is
\* called on every node met; a literal is replaced by what the callback returns
\* (a BinaryExpression is left as it is, the callback returns undefined), and the
\* walk then goes on into the children of the node now in place, so the callback
\* also meets the literals it has just produced.  An exception ends the walk.
RECURSIVE Replace(_, _)
Replace(node, chunkLength) ==
    LET entered == IF IsLiteralNode(node)
                   THEN transformLiteralNodeByChunkLength(node, chunkLength)
                   ELSE [threw |-> FALSE, node |-> node, chunks |-> <<>>]
    IN  IF entered.threw
        THEN [threw |-> TRUE, node |-> NoNode]
        ELSE IF entered.node.type # "BinaryExpression"
        THEN [threw |-> FALSE, node |-> entered.node]
        ELSE LET children == [i \in 1..Len(entered.node.operands) |->
                                 Replace(entered.node.operands[i], chunkLength)]
                 first    == children[1].node
                 rest     == [i \in 1..(Len(children) - 1) |-> children[i + 1].node]
             IN  IF \E i \in 1..Len(children) : children[i].threw
                 THEN [threw |-> TRUE, node |-> NoNode]
                 ELSE [threw |-> FALSE,
                       node  |-> [entered.node EXCEPT
                                    !.operands = IF first.type = "BinaryExpression"
                                                 THEN first.operands \o rest
                                                 ELSE <<first>> \o rest]]

\* the literals on which the enter callback of pass #2 would call chunkString
\* with a chunk size whose loop never exits
NeverExiting(node, chunkLength) ==
    LET leaves == Leaves(node)
    IN  {i \in 1..Len(leaves) :
            /\ IsStringLiteralNode(leaves[i])
            /\ chunkLength < StringzLength(leaves[i].value)
            /\ ChunkStringNeverExits(StringzLength(leaves[i].value), chunkLength)}

----------------------------------------------------------------------------
\* SplitStringTransformer: the visit of one literal node

NumberValue == [number |-> TRUE]

\* <<code-point length of the literal, options.splitStringsChunkLength>>
Inputs == ((0..MaxShortLength) \X (1..MaxShortChunkLength))
            \cup (LongLengths \X LongChunkLengths)

SplitInit ==
    /\ pc = "leave"
    /\ splitStrings \in BOOLEAN
    /\ nodeTransformationStage \in {"Converting", "Finalizing"}
    /\ hasParent \in BOOLEAN
    /\ prohibited \in BOOLEAN
    /\ \E in \in Inputs :
          /\ splitStringsChunkLength = in[2]
          /\ literalNode \in {LiteralNode("string", [off |-> 0, len |-> in[1]]),
                              LiteralNode("number", NumberValue)}
    /\ firstPassChunksNode = NoNode
    /\ stringChunks = <<>>
    /\ stringChunksCount = 0
    /\ isLargeString = FALSE
    /\ minSecondPathChunkLength = 0
    /\ secondPassChunksNode = NoNode
    /\ returnedNode = NoNode
    /\ parentized = FALSE
    /\ chunkIndex = 0
    /\ nextChunkStartIndex = 0
    /\ chunks = <<>>

inputVars == <<splitStrings, splitStringsChunkLength, nodeTransformationStage,
               hasParent, prohibited, literalNode>>

loopVars == <<chunkIndex, nextChunkStartIndex, chunks>>

\* getVisitor and its leave callback: no visitor unless options.splitStrings is
\* set and the stage is Converting; the callback transforms a literal that has
\* a parent, and otherwise returns undefined, which leaves the node in place
Leave ==
    /\ UNCHANGED runVars
    /\ pc = "leave"
    /\ IF splitStrings /\ nodeTransformationStage = "Converting"
          /\ hasParent /\ IsLiteralNode(literalNode)
       THEN pc' = "transformNode" /\ UNCHANGED returnedNode
       ELSE pc' = "skipped" /\ returnedNode' = literalNode
    /\ UNCHANGED <<inputVars, firstPassChunksNode, stringChunks, stringChunksCount,
                   isLargeString, minSecondPathChunkLength, secondPassChunksNode,
                   parentized, loopVars>>

\* transformNode, a prohibited literal: returned as it is
ReturnProhibited ==
    /\ UNCHANGED runVars
    /\ pc = "transformNode"
    /\ prohibited
    /\ pc' = "returned"
    /\ returnedNode' = literalNode
    /\ UNCHANGED <<inputVars, firstPassChunksNode, stringChunks, stringChunksCount,
                   isLargeString, minSecondPathChunkLength, secondPassChunksNode,
                   parentized, loopVars>>

\* transformNode, pass #1: transformLiteralNodeByChunkLength(literalNode, firstPassChunkLength)
FirstPass ==
    /\ UNCHANGED runVars
    /\ pc = "transformNode"
    /\ ~prohibited
    /\ LET pass == transformLiteralNodeByChunkLength(literalNode, firstPassChunkLength)
       IN  IF pass.threw
           THEN /\ pc' = "threw"
                /\ UNCHANGED <<firstPassChunksNode, stringChunks>>
           ELSE /\ pc' = "decide"
                /\ firstPassChunksNode' = pass.node
                /\ stringChunks' = pass.chunks
    /\ UNCHANGED <<inputVars, stringChunksCount, isLargeString, minSecondPathChunkLength,
                   secondPassChunksNode, returnedNode, parentized, loopVars>>

\* Math.floor(stringChunksCount / splitStringsChunkLength)
LargeStringChunkLength(count, chunkLength) == count \div chunkLength

\* maxStringLengthForSecondPass / firstPassChunkLength <= stringChunksCount
\* (30000 / 1000 is the integer 30)
IsLargeString(count) ==
    maxStringLengthForSecondPass \div firstPassChunkLength <= count

\* mutant: the chunk length of pass #2 is computed as for a large string whether
\* the string is large or not
DecideAlwaysDivides ==
    /\ UNCHANGED runVars
    /\ pc = "decide"
    /\ pc' = "secondPass"
    /\ stringChunksCount' = Len(stringChunks)
    /\ isLargeString' = IsLargeString(Len(stringChunks))
    /\ minSecondPathChunkLength' =
          LargeStringChunkLength(Len(stringChunks), splitStringsChunkLength)
    /\ UNCHANGED <<inputVars, firstPassChunksNode, stringChunks, secondPassChunksNode,
                   returnedNode, parentized, loopVars>>

\* transformNode: stringChunksCount, isLargeString, minSecondPathChunkLength
Decide ==
    /\ UNCHANGED runVars
    /\ pc = "decide"
    /\ pc' = "secondPass"
    /\ stringChunksCount' = Len(stringChunks)
    /\ isLargeString' = IsLargeString(Len(stringChunks))
    /\ minSecondPathChunkLength' =
          IF IsLargeString(Len(stringChunks))
          THEN LargeStringChunkLength(Len(stringChunks), splitStringsChunkLength)
          ELSE splitStringsChunkLength
    /\ UNCHANGED <<inputVars, firstPassChunksNode, stringChunks, secondPassChunksNode,
                   returnedNode, parentized, loopVars>>

\* transformNode, pass #2: estraverse.replace over the tree of pass #1.  When the
\* enter callback reaches a literal whose chunkString loop never exits, the call
\* is inside that loop (ChunkStringLoop) and replace does not return.
SecondPass ==
    /\ UNCHANGED runVars
    /\ pc = "secondPass"
    /\ LET stuck == NeverExiting(firstPassChunksNode, minSecondPathChunkLength)
       IN  IF stuck # {}
           THEN /\ pc' = "chunkString"
                /\ chunkIndex' = 0
                /\ nextChunkStartIndex' = 0
                /\ chunks' = <<>>
                /\ UNCHANGED secondPassChunksNode
           ELSE LET replaced == Replace(firstPassChunksNode, minSecondPathChunkLength)
                IN  /\ pc' = IF replaced.threw THEN "threw" ELSE "parentize"
                    /\ secondPassChunksNode' = replaced.node
                    /\ UNCHANGED loopVars
    /\ UNCHANGED <<inputVars, firstPassChunksNode, stringChunks, stringChunksCount,
                   isLargeString, minSecondPathChunkLength, returnedNode, parentized>>

\* the literal whose value the never-exiting chunkString loop is cutting: the
\* first one the walk of pass #2 meets
StuckLiteral ==
    LET leaves == Leaves(firstPassChunksNode)
        stuck  == NeverExiting(firstPassChunksNode, minSecondPathChunkLength)
    IN  leaves[CHOOSE i \in stuck : \A j \in stuck : i <= j]

\* one iteration of the chunkString loop with chunksCount = Infinity:
\* chunks[chunkIndex] = substr(...); ++chunkIndex, nextChunkStartIndex += chunkSize.
\* The model follows MaxSpin iterations of it.
ChunkStringLoop ==
    /\ UNCHANGED runVars
    /\ pc = "chunkString"
    /\ chunkIndex < MaxSpin
    /\ chunks' = Append(chunks, StringzSubstr(StuckLiteral.value, nextChunkStartIndex,
                                              minSecondPathChunkLength))
    /\ chunkIndex' = chunkIndex + 1
    /\ nextChunkStartIndex' = nextChunkStartIndex + minSecondPathChunkLength
    /\ UNCHANGED <<pc, inputVars, firstPassChunksNode, stringChunks, stringChunksCount,
                   isLargeString, minSecondPathChunkLength, secondPassChunksNode,
                   returnedNode, parentized>>

\* transformNode: parentizeNode, parentizeAst, return secondPassChunksNode
Parentize ==
    /\ UNCHANGED runVars
    /\ pc = "parentize"
    /\ pc' = "returned"
    /\ parentized' = TRUE
    /\ returnedNode' = secondPassChunksNode
    /\ UNCHANGED <<inputVars, firstPassChunksNode, stringChunks, stringChunksCount,
                   isLargeString, minSecondPathChunkLength, secondPassChunksNode,
                   loopVars>>

SplitNext ==
    \/ Leave
    \/ ReturnProhibited
    \/ FirstPass
    \/ Decide
    \/ SecondPass
    \/ ChunkStringLoop
    \/ Parentize

----------------------------------------------------------------------------
\* JavaScriptObfuscatorInternal.obfuscate, called several times in one process

\* calls of obfuscate followed in one process
MaxCalls == 3

\* options.seed ranges over 0..MaxSeed
MaxSeed == 2

\* source texts 1..MaxSource
MaxSource == 2

\* random values the passes of one run draw
DrawsPerRun == 2

\* a generator that was not seeded draws values the model cannot predict
RandomValues == {0, 1}

\* new Chance(seed): a stream fixed by the seed, nothing drawn yet
Chance(s) == [seeded |-> TRUE, seed |-> s, drawn |-> 0]

\* the generator a process starts with: seeded from the clock
UnseededGenerator == [seeded |-> FALSE, seed |-> 0, drawn |-> 0]

\* the value a seeded stream gives as its (drawn+1)-th
StreamValue(generator) == (generator.seed + generator.drawn) % 2

RunInit ==
    /\ rpc = "idle"
    /\ seed = 0
    /\ sourceCode = 0
    /\ randomGenerator = UnseededGenerator
    /\ steps = <<>>
    /\ generatorAtPasses = UnseededGenerator
    /\ generatedCode = <<>>
    /\ runs = <<>>
    /\ calls = 0

\* a call of obfuscate(sourceCode) on an instance with options.seed = seed
Call ==
    /\ UNCHANGED splitVars
    /\ rpc \in {"idle", "done", "threw"}
    /\ calls < MaxCalls
    /\ calls' = calls + 1
    /\ seed' \in 0..MaxSeed
    /\ sourceCode' \in 1..MaxSource
    /\ steps' = <<>>
    /\ generatedCode' = <<>>
    /\ rpc' = "seed"
    /\ UNCHANGED <<randomGenerator, generatorAtPasses, runs>>

\* mutant: the generator is replaced whatever the seed is
ReseedAlways ==
    /\ UNCHANGED splitVars
    /\ rpc = "seed"
    /\ rpc' = "parse"
    /\ randomGenerator' = Chance(seed)
    /\ steps' = Append(steps, "reseed")
    /\ UNCHANGED <<seed, sourceCode, generatorAtPasses, generatedCode, runs, calls>>

\* mutant: the generator is replaced only while the process has its first one
ReseedOnce ==
    /\ UNCHANGED splitVars
    /\ rpc = "seed"
    /\ rpc' = "parse"
    /\ IF seed # 0 /\ ~randomGenerator.seeded
       THEN /\ randomGenerator' = Chance(seed)
            /\ steps' = Append(steps, "reseed")
       ELSE /\ UNCHANGED randomGenerator
            /\ steps' = IF seed # 0 THEN Append(steps, "reseed") ELSE steps
    /\ UNCHANGED <<seed, sourceCode, generatorAtPasses, generatedCode, runs, calls>>

\* if (this.options.seed !== 0) Utils.setRandomGenerator(new Chance(this.options.seed))
Reseed ==
    /\ UNCHANGED splitVars
    /\ rpc = "seed"
    /\ rpc' = "parse"
    /\ IF seed # 0
       THEN /\ randomGenerator' = Chance(seed)
            /\ steps' = Append(steps, "reseed")
       ELSE UNCHANGED <<randomGenerator, steps>>
    /\ UNCHANGED <<seed, sourceCode, generatorAtPasses, generatedCode, runs, calls>>

\* esprima.parse: returns the tree or throws, which ends the call
Parse ==
    /\ UNCHANGED splitVars
    /\ rpc = "parse"
    /\ \E ok \in BOOLEAN :
          IF ok
          THEN rpc' = "parentize" /\ steps' = Append(steps, "parse")
          ELSE rpc' = "threw" /\ UNCHANGED steps
    /\ UNCHANGED <<seed, sourceCode, randomGenerator, generatorAtPasses,
                   generatedCode, runs, calls>>

\* NodeUtils.parentize(astTree)
ParentizeTree ==
    /\ UNCHANGED splitVars
    /\ rpc = "parentize"
    /\ rpc' = "initialize"
    /\ steps' = Append(steps, "parentize")
    /\ UNCHANGED <<seed, sourceCode, randomGenerator, generatorAtPasses,
                   generatedCode, runs, calls>>

\* customNodesStorage.initialize(new StackTraceAnalyzer().analyze(astTree.body))
InitializeStorage ==
    /\ UNCHANGED splitVars
    /\ rpc = "initialize"
    /\ rpc' = "obfuscate"
    /\ steps' = Append(steps, "initialize")
    /\ UNCHANGED <<seed, sourceCode, randomGenerator, generatorAtPasses,
                   generatedCode, runs, calls>>

\* the values the passes draw from `generator`, each with the generator after it
RECURSIVE Draws(_, _)
Draws(generator, n) ==
    IF n = 0
    THEN {[values |-> <<>>, generator |-> generator]}
    ELSE LET before == Draws(generator, n - 1)
         IN  IF generator.seeded
             THEN {[values    |-> Append(d.values, StreamValue(d.generator)),
                    generator |-> [d.generator EXCEPT !.drawn = @ + 1]] : d \in before}
             ELSE {[values |-> Append(d.values, v), generator |-> d.generator] :
                      d \in before, v \in RandomValues}

\* new Obfuscator(...).obfuscateAstTree(astTree, customNodesStorage): the passes
\* draw from the process-wide generator and from nothing else
ObfuscateAstTree ==
    /\ UNCHANGED splitVars
    /\ rpc = "obfuscate"
    /\ rpc' = "generate"
    /\ steps' = Append(steps, "obfuscate")
    /\ generatorAtPasses' = randomGenerator
    /\ \E d \in Draws(randomGenerator, DrawsPerRun) :
          /\ generatedCode' = <<sourceCode, d.values>>
          /\ randomGenerator' = d.generator
    /\ UNCHANGED <<seed, sourceCode, runs, calls>>

\* this.generateCode(sourceCode, obfuscatedAstTree)
GenerateCode ==
    /\ UNCHANGED splitVars
    /\ rpc = "generate"
    /\ rpc' = "correct"
    /\ steps' = Append(steps, "generate")
    /\ UNCHANGED <<seed, sourceCode, randomGenerator, generatorAtPasses,
                   generatedCode, runs, calls>>

\* return this.getObfuscationResult(generatorOutput): SourceMapCorrector.correct()
GetObfuscationResult ==
    /\ UNCHANGED splitVars
    /\ rpc = "correct"
    /\ rpc' = "done"
    /\ steps' = Append(steps, "correct")
    /\ runs' = Append(runs, [sourceCode |-> sourceCode, seed |-> seed,
                              generatorAtPasses |-> generatorAtPasses,
                              generatedCode |-> generatedCode])
    /\ UNCHANGED <<seed, sourceCode, randomGenerator, generatorAtPasses,
                   generatedCode, calls>>

RunNext ==
    \/ Call
    \/ Reseed
    \/ Parse
    \/ ParentizeTree
    \/ InitializeStorage
    \/ ObfuscateAstTree
    \/ GenerateCode
    \/ GetObfuscationResult

----------------------------------------------------------------------------
\* Specifications

\* the visit of one literal; no obfuscate call runs
Init == SplitInit /\ RunInit

Next == SplitNext

Spec == Init /\ [][Next]_vars

\* a process that calls obfuscate; the transformer's variables stay at one visit
RunSpecInit ==
    /\ RunInit
    /\ SplitInit
    /\ splitStrings = FALSE
    /\ nodeTransformationStage = "Converting"
    /\ hasParent = FALSE
    /\ prohibited = FALSE
    /\ splitStringsChunkLength = 1
    /\ literalNode = LiteralNode("number", NumberValue)

RunSpec == RunSpecInit /\ [][RunNext]_vars

----------------------------------------------------------------------------
\* Claims about SplitStringTransformer (specification Spec)

\* ceil(a / b) for b >= 1
CeilDiv(a, b) == (a + b - 1) \div b

\* code-point length of the visited literal (a string literal)
ValueLength == literalNode.value.len

\* transformNode has gone past the prohibited-literal check on a string literal
\* and has taken its decision
Decided ==
    /\ ~prohibited
    /\ IsStringLiteralNode(literalNode)
    /\ pc \in {"secondPass", "chunkString", "parentize", "returned"}

\* transformNode has returned the result of its two passes for a string literal
Transformed ==
    /\ ~prohibited
    /\ IsStringLiteralNode(literalNode)
    /\ pc = "returned"

IsNonEmptyLeaf(leaf) == leaf.value.len > 0

\* the concatenation of the leaves' values, left to right, is `string`: the
\* leaves are string literals and their non-empty values are slices that follow
\* one another from the start of `string` to its end
ConcatenatesTo(leaves, string) ==
    /\ \A i \in 1..Len(leaves) : IsStringLiteralNode(leaves[i])
    /\ LET parts == SelectSeq(leaves, IsNonEmptyLeaf)
       IN  IF Len(parts) = 0
           THEN string.len = 0
           ELSE /\ parts[1].value.off = string.off
                /\ \A i \in 1..(Len(parts) - 1) :
                      parts[i + 1].value.off = parts[i].value.off + parts[i].value.len
                /\ parts[Len(parts)].value.off + parts[Len(parts)].value.len
                      = string.off + string.len

\* C1: whenever transformNode returns for a string literal (prohibited or not,
\* large or not), the left-to-right concatenation of the literal leaves of the
\* returned tree is the literal's value.
C1_TwoPhaseEquivalence ==
    (pc = "returned" /\ IsStringLiteralNode(literalNode))
        => ConcatenatesTo(Leaves(returnedNode), literalNode.value)

\* C1 witness: a large string came back split in both passes
C1_Witness ==
    /\ Transformed
    /\ isLargeString
    /\ Len(Leaves(firstPassChunksNode)) >= 32
    /\ Len(Leaves(returnedNode)) > Len(Leaves(firstPassChunksNode))

\* C2 (as claimed): the string is classified as large iff
\* N1 = ceil(codePointLength / 1000) is at least 30.
C2_LargeIffThirtyChunks ==
    Decided =>
        (isLargeString <=>
            CeilDiv(ValueLength, firstPassChunkLength)
                >= maxStringLengthForSecondPass \div firstPassChunkLength)

\* C3 (as claimed): for a string classified as large the chunk length of pass #2
\* is floor(N1 / targetChunkLength), N1 = ceil(codePointLength / 1000).
C3_LargeChunkLengthFromPhaseOneCount ==
    (Decided /\ isLargeString) =>
        minSecondPathChunkLength =
            CeilDiv(ValueLength, firstPassChunkLength) \div splitStringsChunkLength

\* C4 (as claimed): for a string classified as large whose computed pass-#2
\* chunk length is 0, pass #2 ends and transformNode returns the tree of pass #1
\* with no leaf split further.
C4_ZeroChunkLengthNoFurtherSplit ==
    (Decided /\ isLargeString /\ minSecondPathChunkLength = 0 /\ pc # "secondPass")
        => /\ pc \in {"parentize", "returned"}
           /\ secondPassChunksNode = firstPassChunksNode

\* the leaves of `leaves` that lie in the slice `string`
LeavesWithin(leaves, string) ==
    LET Within(leaf) == /\ leaf.value.off >= string.off
                        /\ leaf.value.off + leaf.value.len <= string.off + string.len
    IN  SelectSeq(leaves, Within)

\* C5: for a string not classified as large the chunk length of pass #2 is the
\* configured splitStringsChunkLength T; every leaf returned lies within one
\* chunk of pass #1, and a chunk of pass #1 of length c > T is replaced by
\* ceil(c / T) leaves, the i-th starting (i-1)*T code points into the chunk, all
\* of length T but the last, which holds the remaining 1..T code points.
C5_SmallStringSizing ==
    (Transformed /\ ~isLargeString) =>
        LET T       == splitStringsChunkLength
            firstPass == Leaves(firstPassChunksNode)
            returned  == Leaves(returnedNode)
        IN  /\ minSecondPathChunkLength = T
            /\ \A j \in 1..Len(returned) :
                  \E k \in 1..Len(firstPass) :
                      /\ returned[j].value.off >= firstPass[k].value.off
                      /\ returned[j].value.off + returned[j].value.len
                            <= firstPass[k].value.off + firstPass[k].value.len
            /\ \A k \in 1..Len(firstPass) :
                  LET chunk  == firstPass[k].value
                      n      == CeilDiv(chunk.len, T)
                      inside == LeavesWithin(returned, chunk)
                  IN  chunk.len > T =>
                        /\ Len(inside) = n
                        /\ \A i \in 1..n :
                              /\ inside[i].value.off = chunk.off + (i - 1) * T
                              /\ inside[i].value.len =
                                    IF i < n THEN T ELSE chunk.len - (n - 1) * T
                              /\ inside[i].value.len \in 1..T

\* C5 witness: the 2500 code points / T = 10 case: chunks of 1000, 1000 and 500
\* after pass #1, 250 leaves of 10 code points returned
C5_Witness ==
    /\ Transformed
    /\ ~isLargeString
    /\ ValueLength = 2500
    /\ splitStringsChunkLength = 10
    /\ [k \in 1..3 |-> Leaves(firstPassChunksNode)[k].value.len] = <<1000, 1000, 500>>
    /\ Len(Leaves(returnedNode)) = 250

\* C6: a call of transformLiteralNodeByChunkLength with a chunk length that is at
\* least the value's length, or on a literal that is no string, gives back the
\* same literal with an empty chunk list, in both passes: pass #1 leaves a
\* literal of at most 1000 code points (or a non-string) as it is and reports no
\* chunk; pass #2 leaves every leaf of pass #1 that is no longer than its chunk
\* length as it is; so a string of at most min(1000, T) code points comes back
\* from transformNode as the original literal.
C6_NoOpGuard ==
    /\ (~prohibited /\ pc \notin {"leave", "skipped", "transformNode"}
            /\ (~IsStringLiteralNode(literalNode) \/ ValueLength <= firstPassChunkLength))
          => (firstPassChunksNode = literalNode /\ stringChunks = <<>>)
    /\ (~prohibited /\ pc \in {"parentize", "returned"}
            /\ LET firstPass == Leaves(firstPassChunksNode)
               IN  \A i \in 1..Len(firstPass) :
                      \/ ~IsStringLiteralNode(firstPass[i])
                      \/ firstPass[i].value.len <= minSecondPathChunkLength)
          => secondPassChunksNode = firstPassChunksNode
    /\ (~prohibited /\ pc \notin {"leave", "skipped", "transformNode", "decide", "secondPass"}
            /\ (~IsStringLiteralNode(literalNode)
                  \/ (ValueLength <= firstPassChunkLength
                        /\ ValueLength <= splitStringsChunkLength)))
          => (pc \in {"parentize", "returned"}
                /\ secondPassChunksNode = literalNode
                /\ (pc = "returned" => returnedNode = literalNode))

\* C6 witness: a non-empty string whose length equals the chunk length came back
\* as the literal it was
C6_Witness ==
    /\ Transformed
    /\ ValueLength >= 1
    /\ ValueLength = splitStringsChunkLength
    /\ returnedNode = literalNode

\* C6 witness of the guard in pass #2: a split string whose chunks of pass #1
\* are exactly as long as the chunk length of pass #2
C6_WitnessSecondPass ==
    /\ Transformed
    /\ ValueLength > firstPassChunkLength
    /\ minSecondPathChunkLength = firstPassChunkLength
    /\ returnedNode = firstPassChunksNode

\* C9: the exception 'First and second chunks values should not be empty' of
\* transformStringChunksToBinaryExpressionNode is never thrown, in pass #1 or in
\* pass #2.
C9_BuilderNeverThrows == pc # "threw"

\* C9 witness: the builder ran in pass #1 and again in pass #2
C9_Witness ==
    /\ Transformed
    /\ ValueLength > firstPassChunkLength
    /\ ValueLength % firstPassChunkLength = 1
    /\ Len(Leaves(returnedNode)) > Len(Leaves(firstPassChunksNode))

\* every leaf of the returned tree is a string literal that the enter callback
\* of pass #2 gives back as it is, with no chunks, and a walk of pass #2 over
\* the returned tree changes nothing
SecondPassFixpoint ==
    /\ LET returned == Leaves(returnedNode)
       IN  \A i \in 1..Len(returned) :
              LET again == transformLiteralNodeByChunkLength(returned[i],
                                                             minSecondPathChunkLength)
              IN  /\ ~again.threw
                  /\ again.node = returned[i]
                  /\ again.chunks = <<>>
    /\ Replace(returnedNode, minSecondPathChunkLength)
          = [threw |-> FALSE, node |-> returnedNode]

\* C10 (as claimed): when the chunk length K2 of pass #2 is at least 1, every
\* leaf of the returned tree has between 1 and K2 code points (at most 1000 when
\* pass #1 split the literal), and pass #2 applied again changes nothing.
C10_LeavesBetweenOneAndK2 ==
    (Transformed /\ minSecondPathChunkLength >= 1) =>
        /\ LET returned == Leaves(returnedNode)
           IN  \A i \in 1..Len(returned) :
                  /\ returned[i].value.len \in 1..minSecondPathChunkLength
                  /\ ValueLength > firstPassChunkLength
                        => returned[i].value.len <= firstPassChunkLength
        /\ SecondPassFixpoint

\* C10 (amended): when the chunk length K2 of pass #2 is at least 1, every leaf
\* of the returned tree has at most K2 code points (at most 1000 when pass #1
\* split the literal) and at least 1 unless the literal is the empty string,
\* and pass #2 applied again changes nothing.
C10_LeavesAtMostK2 ==
    (Transformed /\ minSecondPathChunkLength >= 1) =>
        /\ LET returned == Leaves(returnedNode)
           IN  \A i \in 1..Len(returned) :
                  /\ returned[i].value.len <= minSecondPathChunkLength
                  /\ ValueLength >= 1 => returned[i].value.len >= 1
                  /\ ValueLength > firstPassChunkLength
                        => returned[i].value.len <= firstPassChunkLength
        /\ SecondPassFixpoint

\* C10 witness: pass #2 split the chunks of pass #1 and the walk met the leaves
\* it produced
C10_Witness ==
    /\ Transformed
    /\ minSecondPathChunkLength >= 1
    /\ ValueLength > firstPassChunkLength
    /\ Len(Leaves(returnedNode)) > Len(Leaves(firstPassChunksNode))

----------------------------------------------------------------------------
\* Claims about JavaScriptObfuscatorInternal.obfuscate (specification RunSpec)

\* the steps of a call that returns, in order
ExpectedSteps(s) ==
    (IF s # 0 THEN <<"reseed">> ELSE <<>>)
        \o <<"parse", "parentize", "initialize", "obfuscate", "generate", "correct">>

IsPrefix(a, b) == Len(a) <= Len(b) /\ a = SubSeq(b, 1, Len(a))

\* C7: the steps a call has performed are, in this order and each once: the
\* reseeding of the process-wide generator (iff options.seed # 0, before parse),
\* parse, parentize, the initialization of the custom nodes storage, the passes,
\* the printing and the source-map correction; a call that returns has
\* performed them all.
C7_RunOrdering ==
    /\ IsPrefix(steps, ExpectedSteps(seed))
    /\ (rpc \notin {"idle", "seed"} /\ seed # 0) => (steps # <<>> /\ steps[1] = "reseed")
    /\ rpc = "parse" => Len(steps) = (IF seed # 0 THEN 1 ELSE 0)
    /\ rpc = "done" => steps = ExpectedSteps(seed)

\* C7 witness: a call with a seed and a later call without one have both returned
C7_Witness ==
    /\ rpc = "done"
    /\ Len(runs) >= 2
    /\ runs[1].seed # 0
    /\ seed = 0
    /\ steps = ExpectedSteps(0)

\* C8: a call with a non-zero seed starts its passes with the fresh stream of
\* that seed, whatever calls came before it, and two calls with the same source
\* text and the same non-zero seed generate the same code.
C8_SeedDeterminism ==
    \A i \in 1..Len(runs) :
        runs[i].seed # 0 =>
            /\ runs[i].generatorAtPasses = Chance(runs[i].seed)
            /\ \A j \in 1..Len(runs) :
                  (runs[j].seed = runs[i].seed /\ runs[j].sourceCode = runs[i].sourceCode)
                      => runs[j].generatedCode = runs[i].generatedCode

\* C8 witness: two calls with the same source and seed, with a call without a
\* seed between them
C8_Witness ==
    /\ Len(runs) = 3
    /\ runs[1].seed # 0
    /\ runs[2].seed = 0
    /\ runs[3].seed = runs[1].seed
    /\ runs[3].sourceCode = runs[1].sourceCode

====
